---------------------------- MODULE Spec2Model ----------------------------
(***************************************************************************)
(* A model of the rust8 CHIP-8 interpreter (src/src/hardware.rs) and of    *)
(* the driver loop that owns it (src/src/main.rs).                         *)
(*                                                                         *)
(* The machine is the struct Chip8.  `ram` and `vram` are kept sparsely:   *)
(* `ram` maps the addresses that hold a non-zero byte to that byte (every  *)
(* other address of the 4096 holds 0, as Chip8::new leaves it) and `vram`  *)
(* is the set of <<row, col>> cells that hold true.                        *)
(*                                                                         *)
(* A Rust panic ends the process: `panic` records it, together with the    *)
(* machine exactly as the panicking statement left it.                     *)
(***************************************************************************)
EXTENDS Integers, Sequences, FiniteSets, TLC

VARIABLES pc, sp, stack, i, v, tim_delay, tim_snd, ram, vram, vram_changed,
          keys, opcode, result, panic, overflow_checks, sound

vars == <<pc, sp, stack, i, v, tim_delay, tim_snd, ram, vram, vram_changed,
          keys, opcode, result, panic, overflow_checks, sound>>

(***************************************************************************)
(* Program constants.                                                      *)
(***************************************************************************)
CHIP8_WIDTH == 64
CHIP8_HEIGHT == 32
RAM_SIZE == 4096
V_REG_COUNT == 16
STACK_SIZE == 16
KEY_COUNT == 16
FONT_BASE == 80
ROM_BASE == 512

(***************************************************************************)
(* Bounds of the model.                                                    *)
(***************************************************************************)
\* Cycle is not taken once the call stack is deeper than this.
MaxStack == 18
\* At most this many keys are held down at once.
MaxKeysDown == 2
\* Cycle is not taken once I is above this (255 past the 16-bit range).
MaxIndex == 65790

Byte == 0..255
Regs == 0..(V_REG_COUNT - 1)
KeyIdx == 0..(KEY_COUNT - 1)

(***************************************************************************)
(* Integer operations of the source, computed bit by bit.                  *)
(***************************************************************************)
RECURSIVE Pow2(_)
Pow2(n) == IF n = 0 THEN 1 ELSE 2 * Pow2(n - 1)

Shl(a, n) == a * Pow2(n)
Shr(a, n) == a \div Pow2(n)

RECURSIVE BitAnd(_, _)
BitAnd(a, b) ==
    IF a = 0 \/ b = 0 THEN 0
    ELSE (IF a % 2 = 1 /\ b % 2 = 1 THEN 1 ELSE 0) + 2 * BitAnd(a \div 2, b \div 2)

RECURSIVE BitOr(_, _)
BitOr(a, b) ==
    IF a = 0 THEN b
    ELSE IF b = 0 THEN a
    ELSE (IF a % 2 = 1 \/ b % 2 = 1 THEN 1 ELSE 0) + 2 * BitOr(a \div 2, b \div 2)

RECURSIVE BitXor(_, _)
BitXor(a, b) ==
    IF a = 0 THEN b
    ELSE IF b = 0 THEN a
    ELSE (IF a % 2 # b % 2 THEN 1 ELSE 0) + 2 * BitXor(a \div 2, b \div 2)

\* A conversion to u8 that clamps to 0..255 instead of truncating.
AsU8Clamps(x) == IF x < 0 THEN 0 ELSE IF x > 255 THEN 255 ELSE x

\* `x as u8` of an integer (two's complement truncation).
AsU8(x) == x % 256

(***************************************************************************)
(* The sparse byte store.                                                  *)
(***************************************************************************)
RamGet(r, a) == IF a \in DOMAIN r THEN r[a] ELSE 0

RamSet(r, a, b) ==
    IF b = 0
    THEN [x \in (DOMAIN r) \ {a} |-> r[x]]
    ELSE [x \in (DOMAIN r) \cup {a} |-> IF x = a THEN b ELSE r[x]]

\* load_ram: copy data[1..len] to ram[addr .. addr + len - 1].
load_ram(r, data, addr) ==
    LET span == addr..(addr + Len(data) - 1)
        at(a) == IF a \in span THEN data[a - addr + 1] ELSE RamGet(r, a)
    IN  [a \in {b \in (DOMAIN r) \cup span : at(b) # 0} |-> at(a)]

(***************************************************************************)
(* Decoding: cycle's opcode and nibs.                                      *)
(***************************************************************************)
Fetch(r, p) == BitOr(Shl(RamGet(r, p), 8), RamGet(r, p + 1))

\* Nib with the field shifted down by 12 - n bits instead of 12 - 4n.
NibShiftsByIndex(op, n) == Shr(BitAnd(op, Shr(\hF000, n * 4)), 12 - n)

Nib(op, n) == Shr(BitAnd(op, Shr(\hF000, n * 4)), 12 - (n * 4))

Nibs(op) == (0 :> Nib(op, 0)) @@ (1 :> Nib(op, 1)) @@ (2 :> Nib(op, 2)) @@ (3 :> Nib(op, 3))

\* ((nibs[2] << 4) | nibs[3]) as u8
LowByte(nibs) == AsU8(BitOr(Shl(nibs[2], 4), nibs[3]))


(***************************************************************************)
(* The machine as one record: the fields of Chip8, the PC policy the       *)
(* opcode handler returned (`ret`) and the panic it raised, if any.        *)
(***************************************************************************)
Self ==
    [pc |-> pc, sp |-> sp, stack |-> stack, i |-> i, v |-> v,
     tim_delay |-> tim_delay, tim_snd |-> tim_snd, ram |-> ram, vram |-> vram,
     vram_changed |-> vram_changed, keys |-> keys, ret |-> "Step",
     panic |-> "none"]

Panic(m, why) == [m EXCEPT !.panic = why]

Front(s) == SubSeq(s, 1, Len(s) - 1)

\* self.ram[a]: an index outside the array panics.
InRam(a) == a >= 0 /\ a < RAM_SIZE

(***************************************************************************)
(* 00E0, 00EE, 0NNN.  The match is on the whole opcode.                    *)
(***************************************************************************)
op_0xxx(m, op, checks) ==
    IF op = \hE0
    THEN [m EXCEPT !.vram = {}, !.vram_changed = TRUE, !.ret = "Step"]
    ELSE IF op = \hEE
    THEN IF m.stack = <<>>
         THEN Panic(m, "unwrap")
         ELSE LET popped == [m EXCEPT !.pc = m.stack[Len(m.stack)],
                                      !.stack = Front(m.stack),
                                      !.ret = "Keep"]
              IN  IF m.sp >= 1
                  THEN [popped EXCEPT !.sp = m.sp - 1]
                  ELSE IF checks
                  THEN Panic(popped, "overflow")
                  \* usize::MAX, written -1: 2^64 - 1 is beyond TLC's integers
                  ELSE [popped EXCEPT !.sp = -1]
    ELSE [m EXCEPT !.pc = op, !.ret = "Keep"]

(***************************************************************************)
(* 2NNN.                                                                   *)
(***************************************************************************)
\* op_2xxx pushing the address of the call itself.
op_2xxx_PushesPc(m, op) ==
    [m EXCEPT !.stack = Append(m.stack, m.pc),
              !.sp = m.sp + 1,
              !.pc = BitAnd(op, \hFFF),
              !.ret = "Keep"]

\* op_2xxx leaving sp as it is.
op_2xxx_KeepsSp(m, op) ==
    [m EXCEPT !.stack = Append(m.stack, m.pc + 2),
              !.pc = BitAnd(op, \hFFF),
              !.ret = "Keep"]

op_2xxx(m, op) ==
    [m EXCEPT !.stack = Append(m.stack, m.pc + 2),
              !.sp = m.sp + 1,
              !.pc = BitAnd(op, \hFFF),
              !.ret = "Keep"]

(***************************************************************************)
(* 3XNN, 4XNN, 5XY0.                                                       *)
(***************************************************************************)
op_3xxx_4xxx_5xxx(m, nibs) ==
    IF nibs[0] = 3 /\ m.v[nibs[1]] = LowByte(nibs)
    THEN [m EXCEPT !.ret = "Skip"]
    ELSE IF nibs[0] = 4 /\ m.v[nibs[1]] # LowByte(nibs)
    THEN [m EXCEPT !.ret = "Skip"]
    ELSE IF nibs[0] = 5 /\ m.v[nibs[1]] = m.v[nibs[2]]
    THEN [m EXCEPT !.ret = "Skip"]
    ELSE [m EXCEPT !.ret = "Step"]

(***************************************************************************)
(* 6XNN, 7XNN.                                                             *)
(***************************************************************************)
op_6xxx_7xxx(m, nibs) ==
    IF nibs[0] = 6
    THEN [m EXCEPT !.v[nibs[1]] = LowByte(nibs), !.ret = "Step"]
    ELSE IF nibs[0] = 7
    THEN [m EXCEPT !.v[nibs[1]] = AsU8(m.v[nibs[1]] + BitOr(Shl(nibs[2], 4), nibs[3])),
                   !.ret = "Step"]
    ELSE [m EXCEPT !.ret = "Step"]

(***************************************************************************)
(* 8XYN.  Each arm writes v[15] and v[X] in the order of the source, so    *)
(* the later write wins when X = F.                                        *)
(***************************************************************************)
op_8xxx(m, nibs) ==
    LET x == nibs[1]
        y == nibs[2]
        vx == m.v[x]
        vy == m.v[y]
        done(w) == [m EXCEPT !.v = w, !.ret = "Step"]
    IN  CASE nibs[3] = 0 -> done([m.v EXCEPT ![x] = vy])
          [] nibs[3] = 1 -> done([m.v EXCEPT ![x] = BitOr(vx, vy)])
          [] nibs[3] = 2 -> done([m.v EXCEPT ![x] = BitAnd(vx, vy)])
          [] nibs[3] = 3 -> done([m.v EXCEPT ![x] = BitXor(vx, vy)])
          [] nibs[3] = 4 ->
                LET val == vx + vy
                    w == [m.v EXCEPT ![15] = IF val > 255 THEN 1 ELSE 0]
                IN  done([w EXCEPT ![x] = AsU8(val)])
          [] nibs[3] = 5 ->
                LET val == vx - vy
                    w == [m.v EXCEPT ![15] = IF val < 0 THEN 0 ELSE 1]
                IN  done([w EXCEPT ![x] = AsU8(val)])
          [] nibs[3] = 6 ->
                LET w == [m.v EXCEPT ![15] = BitAnd(vy, 1)]
                IN  done([w EXCEPT ![x] = Shr(w[x], 1)])
          [] nibs[3] = 7 ->
                LET val == vy - vx
                    w == [m.v EXCEPT ![15] = IF val < 0 THEN BitAnd(m.v[15], 0) ELSE 1]
                IN  done([w EXCEPT ![x] = AsU8(val)])
          [] nibs[3] = 14 ->
                LET w == [m.v EXCEPT ![15] = Shr(vy, 7)]
                IN  done([w EXCEPT ![x] = AsU8(Shl(w[x], 1))])
          [] OTHER -> Panic(m, "invalid instruction")

(***************************************************************************)
(* DXYN.  DrawPx is the body of `for n in 0..8` from column n on, DrawRows *)
(* the `while sprite_height > 0` loop from row row_count on.               *)
(***************************************************************************)
\* DrawPx with the coordinates wrapped around the screen instead of clipped.
RECURSIVE DrawPxWraps(_, _, _, _, _)
DrawPxWraps(m, x, y, row_count, n) ==
    IF n >= 8 THEN m
    ELSE IF ~InRam(m.i + row_count) THEN Panic(m, "index out of bounds")
    ELSE LET px_val == BitAnd(RamGet(m.ram, m.i + row_count), Shl(1, 7 - n)) # 0
             cell == <<(y + row_count) % CHIP8_HEIGHT, (x + n) % CHIP8_WIDTH>>
             hit == m.v[15] # 1 /\ cell \in m.vram /\ px_val
             m1 == IF hit THEN [m EXCEPT !.v[15] = 1] ELSE m
             m2 == [m1 EXCEPT !.vram = IF px_val THEN m1.vram \cup {cell}
                                                 ELSE m1.vram \ {cell}]
         IN  DrawPxWraps(m2, x, y, row_count, n + 1)

RECURSIVE DrawPx(_, _, _, _, _)
DrawPx(m, x, y, row_count, n) ==
    IF n >= 8 THEN m
    ELSE IF x + n >= CHIP8_WIDTH THEN m
    ELSE IF y + row_count >= CHIP8_HEIGHT THEN m
    ELSE IF ~InRam(m.i + row_count) THEN Panic(m, "index out of bounds")
    ELSE LET px_val == BitAnd(RamGet(m.ram, m.i + row_count), Shl(1, 7 - n)) # 0
             cell == <<y + row_count, x + n>>
             hit == m.v[15] # 1 /\ cell \in m.vram /\ px_val
             m1 == IF hit THEN [m EXCEPT !.v[15] = 1] ELSE m
             m2 == [m1 EXCEPT !.vram = IF px_val THEN m1.vram \cup {cell}
                                                 ELSE m1.vram \ {cell}]
         IN  DrawPx(m2, x, y, row_count, n + 1)

RECURSIVE DrawRows(_, _, _, _, _)
DrawRows(m, x, y, sprite_height, row_count) ==
    IF sprite_height <= 0 THEN m
    ELSE LET m1 == DrawPx(m, x, y, row_count, 0)
         IN  IF m1.panic # "none" THEN m1
             ELSE DrawRows(m1, x, y, sprite_height - 1, row_count + 1)

\* op_Dxxx without the reset of VF before the loop.
op_Dxxx_KeepsVF(m, nibs) ==
    LET x == m.v[nibs[1]]
        y == m.v[nibs[2]]
        m0 == [m EXCEPT !.vram_changed = TRUE, !.ret = "Step"]
    IN  DrawRows(m0, x, y, nibs[3], 0)

\* op_Dxxx raising vram_changed only when a pixel changed.
op_Dxxx_DirtyOnChange(m, nibs) ==
    LET x == m.v[nibs[1]]
        y == m.v[nibs[2]]
        m0 == [m EXCEPT !.v[15] = 0, !.ret = "Step"]
        m1 == DrawRows(m0, x, y, nibs[3], 0)
    IN  [m1 EXCEPT !.vram_changed = m.vram_changed \/ m1.vram # m.vram]

op_Dxxx(m, nibs) ==
    LET x == m.v[nibs[1]]
        y == m.v[nibs[2]]
        m0 == [m EXCEPT !.v[15] = 0, !.vram_changed = TRUE, !.ret = "Step"]
    IN  DrawRows(m0, x, y, nibs[3], 0)

(***************************************************************************)
(* EX9E, EXA1.  KeyLoop is `for (x, key) in self.keys` from index x on:    *)
(* the match on the low byte is reached only for a key that is down.       *)
(***************************************************************************)
RECURSIVE KeyLoop(_, _, _)
KeyLoop(m, nibs, x) ==
    IF x >= KEY_COUNT THEN m
    ELSE IF ~m.keys[x] THEN KeyLoop(m, nibs, x + 1)
    ELSE IF LowByte(nibs) = \h9E
    THEN KeyLoop(IF m.v[nibs[1]] = x THEN [m EXCEPT !.ret = "Skip"] ELSE m, nibs, x + 1)
    ELSE IF LowByte(nibs) = \hA1
    THEN KeyLoop(IF m.v[nibs[1]] # x THEN [m EXCEPT !.ret = "Skip"] ELSE m, nibs, x + 1)
    ELSE Panic(m, "invalid instruction")

op_Exxx(m, nibs) ==
    LET m1 == KeyLoop([m EXCEPT !.ret = "Step"], nibs, 0)
    IN  IF m1.panic # "none" THEN m1
        ELSE [m1 EXCEPT !.keys = [k \in KeyIdx |-> FALSE]]

(***************************************************************************)
(* FXNN.                                                                   *)
(***************************************************************************)
\* FirstKey with the keys counted from 1.
RECURSIVE FirstKeyFromOne(_, _)
FirstKeyFromOne(ks, x) ==
    IF x >= KEY_COUNT THEN KEY_COUNT
    ELSE IF ks[x] THEN x + 1
    ELSE FirstKeyFromOne(ks, x + 1)

\* FX0A: the index of the first key that is down, KEY_COUNT when none is.
RECURSIVE FirstKey(_, _)
FirstKey(ks, x) ==
    IF x >= KEY_COUNT THEN KEY_COUNT
    ELSE IF ks[x] THEN x
    ELSE FirstKey(ks, x + 1)

\* BcdPack with the loop left one digit early (`while val >= 10`).
RECURSIVE BcdPackStopsEarly(_, _, _)
BcdPackStopsEarly(val, count, res) ==
    IF val >= 10
    THEN BcdPackStopsEarly(val \div 10, count + 1,
                           BitOr(res, Shl(val % 10, Shl(count, 2))))
    ELSE res

\* FX33: the `while val > 0` loop packing one decimal digit per nibble.
RECURSIVE BcdPack(_, _, _)
BcdPack(val, count, res) ==
    IF val > 0
    THEN BcdPack(val \div 10, count + 1, BitOr(res, Shl(val % 10, Shl(count, 2))))
    ELSE res

\* FX55: `for n in 0..=X { ram[i + n] = v[n] }` from n on.
RECURSIVE StoreRegs(_, _, _)
StoreRegs(m, last, n) ==
    IF n > last THEN m
    ELSE IF ~InRam(m.i + n) THEN Panic(m, "index out of bounds")
    ELSE StoreRegs([m EXCEPT !.ram = RamSet(m.ram, m.i + n, m.v[n])], last, n + 1)

\* FX65: `for n in 0..=X { v[n] = ram[i + n] }` from n on.
RECURSIVE LoadRegs(_, _, _)
LoadRegs(m, last, n) ==
    IF n > last THEN m
    ELSE IF ~InRam(m.i + n) THEN Panic(m, "index out of bounds")
    ELSE LoadRegs([m EXCEPT !.v[n] = RamGet(m.ram, m.i + n)], last, n + 1)

\* `self.i += (self.v[X] + 1) as usize`: the sum is a u8 sum.
BumpI(m, x, checks) ==
    IF m.v[x] + 1 > 255
    THEN IF checks THEN Panic(m, "overflow")
         ELSE [m EXCEPT !.i = m.i + AsU8(m.v[x] + 1)]
    ELSE [m EXCEPT !.i = m.i + (m.v[x] + 1)]

op_Fxxx(m, nibs, checks) ==
    LET x == nibs[1]
        kk == LowByte(nibs)
        m0 == [m EXCEPT !.ret = "Step"]
    IN  CASE kk = \h07 -> [m0 EXCEPT !.v[x] = m.tim_delay]
          [] kk = \h0A ->
                LET k == FirstKey(m.keys, 0)
                    m1 == IF k < KEY_COUNT
                          THEN [m0 EXCEPT !.v[x] = k, !.ret = "Step"]
                          ELSE [m0 EXCEPT !.ret = "Keep"]
                IN  [m1 EXCEPT !.keys = [j \in KeyIdx |-> FALSE]]
          [] kk = \h15 -> [m0 EXCEPT !.tim_delay = m.v[x]]
          [] kk = \h18 -> [m0 EXCEPT !.tim_snd = m.v[x]]
          \* checked_add is None only past usize::MAX, which i never nears
          [] kk = \h1E -> [m0 EXCEPT !.i = m.i + m.v[x]]
          [] kk = \h29 ->
                IF m.v[x] * 5 > 255
                THEN IF checks THEN Panic(m0, "overflow")
                     ELSE [m0 EXCEPT !.i = AsU8(m.v[x] * 5)]
                ELSE [m0 EXCEPT !.i = m.v[x] * 5]
          [] kk = \h33 ->
                LET res == BcdPack(m.v[x], 0, 0)
                IN  IF ~InRam(m.i + 2) THEN Panic(m0, "index out of bounds")
                    ELSE LET r2 == RamSet(m.ram, m.i + 2, AsU8(BitAnd(res, \hF)))
                             r1 == RamSet(r2, m.i + 1, AsU8(Shr(BitAnd(res, \hF0), 4)))
                             r0 == RamSet(r1, m.i, AsU8(Shr(BitAnd(res, \hF00), 8)))
                         IN  [m0 EXCEPT !.ram = r0]
          [] kk = \h55 ->
                LET m1 == StoreRegs(m0, x, 0)
                IN  IF m1.panic # "none" THEN m1 ELSE BumpI(m1, x, checks)
          [] kk = \h65 ->
                LET m1 == LoadRegs(m0, x, 0)
                IN  IF m1.panic # "none" THEN m1 ELSE BumpI(m1, x, checks)
          [] OTHER -> Panic(m0, "invalid instruction")

(***************************************************************************)
(* cycle: fetch, decode, snapshot the keyboard, dispatch, advance PC.      *)
(* `down` is what is_key_down answers, `rnd` the byte thread_rng draws and *)
(* `checks` whether the build panics on arithmetic overflow.               *)
(***************************************************************************)
get_keys(m, down) == [m EXCEPT !.keys = [x \in KeyIdx |-> x \in down]]

Dispatch(m, op, nibs, rnd, checks) ==
    CASE nibs[0] = 0 -> op_0xxx(m, op, checks)
      [] nibs[0] = 1 -> [m EXCEPT !.pc = BitAnd(op, \hFFF), !.ret = "Keep"]
      [] nibs[0] = 2 -> op_2xxx(m, op)
      [] nibs[0] \in {3, 4, 5} -> op_3xxx_4xxx_5xxx(m, nibs)
      [] nibs[0] \in {6, 7} -> op_6xxx_7xxx(m, nibs)
      [] nibs[0] = 8 -> op_8xxx(m, nibs)
      [] nibs[0] = 9 ->
            IF m.v[nibs[1]] # m.v[nibs[2]]
            THEN [m EXCEPT !.ret = "Skip"]
            ELSE [m EXCEPT !.ret = "Step"]
      [] nibs[0] = 10 -> [m EXCEPT !.i = BitAnd(op, \hFFF), !.ret = "Step"]
      [] nibs[0] = 11 -> [m EXCEPT !.pc = BitAnd(op, \hFFF) + m.v[0], !.ret = "Keep"]
      [] nibs[0] = 12 ->
            [m EXCEPT !.v[nibs[1]] = BitAnd(rnd, LowByte(nibs)), !.ret = "Step"]
      [] nibs[0] = 13 -> op_Dxxx(m, nibs)
      [] nibs[0] = 14 -> op_Exxx(m, nibs)
      [] nibs[0] = 15 -> op_Fxxx(m, nibs, checks)

AdvancePc(m) ==
    IF m.panic # "none" THEN m
    ELSE CASE m.ret = "Step" -> [m EXCEPT !.pc = m.pc + 2]
           [] m.ret = "Skip" -> [m EXCEPT !.pc = m.pc + 4]
           [] m.ret = "Keep" -> m

\* The match on nibs[0] and the PC update, for the opcode fetched.
Execute(m, op, rnd, checks) == AdvancePc(Dispatch(m, op, Nibs(op), rnd, checks))

cycle(m, down, rnd, checks) ==
    IF ~InRam(m.pc) \/ ~InRam(m.pc + 1)
    THEN Panic(m, "index out of bounds")
    \* println! evaluates self.pc - 0x200 as a usize
    ELSE IF checks /\ m.pc < ROM_BASE
    THEN Panic(m, "overflow")
    ELSE Execute(get_keys(m, down), Fetch(m.ram, m.pc), rnd, checks)

\* decrease_timers as written: each timer loses its own value.
decrease_timers(m) ==
    LET m1 == IF m.tim_delay > 0
              THEN [m EXCEPT !.tim_delay = m.tim_delay - m.tim_delay]
              ELSE m
    IN  IF m1.tim_snd > 0
        THEN [m1 EXCEPT !.tim_snd = m1.tim_snd - m1.tim_snd]
        ELSE m1

(***************************************************************************)
(* Actions.                                                                *)
(***************************************************************************)
\* The word at PC, -1 when the fetch itself would panic.
Word == IF InRam(pc) /\ InRam(pc + 1) THEN Fetch(ram, pc) ELSE -1

Randoms == IF Word >= 0 /\ Nib(Word, 0) = \hC THEN Byte ELSE {0}

\* What is_key_down may answer: the sets of at most MaxKeysDown keys.
KeySnapshots == {d \in SUBSET KeyIdx : Cardinality(d) <= MaxKeysDown}

\* chip8.cycle() with the keys in `down` held.
CycleWith(down) ==
    /\ panic = "none"
    /\ Len(stack) <= MaxStack
    /\ i <= MaxIndex
    /\ \E rnd \in Randoms :
         \E m \in {cycle(Self, down, rnd, overflow_checks)} :
             /\ pc' = m.pc
             /\ sp' = m.sp
             /\ stack' = m.stack
             /\ i' = m.i
             /\ v' = m.v
             /\ tim_delay' = m.tim_delay
             /\ tim_snd' = m.tim_snd
             /\ ram' = m.ram
             /\ vram' = m.vram
             /\ vram_changed' = m.vram_changed
             /\ keys' = m.keys
             /\ panic' = m.panic
             /\ opcode' = IF Word >= 0 THEN Word ELSE opcode
             /\ result' = IF m.panic = "none" THEN "Ok" ELSE result
    /\ UNCHANGED <<overflow_checks, sound>>

\* chip8.cycle() in the driver loop, whatever the keyboard holds.
Cycle == \E down \in KeySnapshots : CycleWith(down)

\* chip8.cycle() with no key held.
Step == CycleWith({})

\* One fixed-step update of the driver loop: the timers, then the tone.
Tick ==
    /\ panic = "none"
    /\ LET m == decrease_timers(Self)
       IN  /\ tim_delay' = m.tim_delay
           /\ tim_snd' = m.tim_snd
           /\ sound' = IF m.tim_snd = 0 THEN FALSE ELSE sound
    /\ UNCHANGED <<pc, sp, stack, i, v, ram, vram, vram_changed, keys, opcode,
                   result, panic, overflow_checks>>

\* The driver consumes a changed frame.
Render ==
    /\ panic = "none"
    /\ vram_changed
    /\ vram_changed' = FALSE
    /\ UNCHANGED <<pc, sp, stack, i, v, tim_delay, tim_snd, ram, vram, keys,
                   opcode, result, panic, overflow_checks, sound>>

(***************************************************************************)
(* Construction: Chip8::new, the two load_ram calls and start of main.     *)
(***************************************************************************)
FONT_SET ==
    << \hF0, \h90, \h90, \h90, \hF0,   \h20, \h60, \h20, \h20, \h70,
       \hF0, \h10, \hF0, \h80, \hF0,   \hF0, \h10, \hF0, \h10, \hF0,
       \h90, \h90, \hF0, \h10, \h10,   \hF0, \h80, \hF0, \h10, \hF0,
       \hF0, \h80, \hF0, \h90, \hF0,   \hF0, \h10, \h20, \h40, \h40,
       \hF0, \h90, \hF0, \h90, \hF0,   \hF0, \h90, \hF0, \h10, \hF0,
       \hF0, \h90, \hF0, \h90, \h90,   \hE0, \h90, \hE0, \h90, \hE0,
       \hF0, \h80, \h80, \h80, \hF0,   \hE0, \h90, \h90, \h90, \hE0,
       \hF0, \h80, \hF0, \h80, \hF0,   \hF0, \h80, \hF0, \h80, \h80 >>

\* A ROM file is a sequence of bytes; the catalogues below write it as the
\* sequence of its 16-bit words, most significant byte first.
RomBytes(ws) ==
    [k \in 1..(2 * Len(ws)) |->
        IF k % 2 = 1 THEN ws[(k + 1) \div 2] \div 256 ELSE ws[k \div 2] % 256]

InitWith(roms) ==
    \E rom \in roms, checks \in BOOLEAN :
        /\ pc = ROM_BASE
        /\ sp = 0
        /\ stack = <<>>
        /\ i = 0
        /\ v = [r \in Regs |-> 0]
        /\ tim_delay = 255
        /\ tim_snd = 255
        /\ ram = load_ram(load_ram(<<>>, FONT_SET, FONT_BASE), RomBytes(rom), ROM_BASE)
        /\ vram = {}
        /\ vram_changed = FALSE
        /\ keys = [k \in KeyIdx |-> FALSE]
        /\ opcode = -1
        /\ result = "none"
        /\ panic = "none"
        /\ overflow_checks = checks
        /\ sound = TRUE

(***************************************************************************)
(* ROM catalogues.  Every ROM ends in the word FFFF, which no handler      *)
(* accepts, so that a run ends there.                                      *)
(***************************************************************************)
\* FX0A, then the end.
RomKeyWait(x) == << \hF00A + (256 * x), \hFFFF >>

\* an EXNN that is neither EX9E nor EXA1
RomKeyInvalid == << \hE0FF, \hFFFF >>

\* 200: I = 208; 202, 204: draw one row at (0, 0); 206: end; 208: sprite C0
RomDrawTwice == << \hA208, \hD001, \hD001, \hFFFF, \hC000 >>

\* Calls nested d deep: word 0 calls word 2, word 2 calls word 4, ..., word 2d
\* returns; every odd word but the first returns as well, word 1 is the end.
RomNest(d) ==
    [k \in 1..((2 * d) + 1) |->
        IF k = 2 THEN \hFFFF
        ELSE IF k % 2 = 0 \/ k = (2 * d) + 1 THEN \h00EE
        ELSE \h2000 + ROM_BASE + (2 * (k + 1))]

\* a subroutine that calls itself
RomRecurse == << \h2200 >>

\* One call to nnn: below the ROM, at the word after the call, at an odd
\* address, at the last byte of RAM.
RomCall(nnn) == << \h2000 + nnn, \hFFFF >>

CallTargets == {\h000, \h1FF, \h202, \h203, \hFFF}

\* a return with nothing to return to
RomUnderflow == << \h00EE >>

\* words outside the opcode table
RomInvalid ==
    { << \h5011, \hFFFF, \h9011, \h8008 >>,
      << \hF0FF >> }

\* register block, BCD and sprite accesses that run past the end of RAM
RomEdge ==
    { << \h6007, \hAFFF, \hF155 >>,
      << \h6007, \hAFFF, \hF165 >>,
      << \h60EA, \hAFFE, \hF033 >>,
      << \hAFFF, \hD002 >> }

\* 8XY4 with X = F: VF = 200, V0 = 100
RomAddFlag == << \h6FC8, \h6064, \h8F04, \hFFFF >>

\* Jumps and every conditional skip, taken and not taken, with V0 = 5 and
\* V1 = 0; each taken skip passes over an FFFF.  No key is held.
\* 200: 1202   202: B204   204: 6005   206: 3005 (skip)  208: FFFF
\* 20A: 3006   20C: 4005   20E: 4006 (skip)  210: FFFF
\* 212: 5010   214: 9010 (skip)  216: FFFF   218: 5000 (skip)  21A: FFFF
\* 21C: 9000   21E: E19E   220: E1A1   222: FFFF
RomSkips ==
    << \h1202, \hB204, \h6005, \h3005, \hFFFF, \h3006, \h4005, \h4006, \hFFFF,
       \h5010, \h9010, \hFFFF, \h5000, \hFFFF, \h9000, \hE19E, \hE1A1, \hFFFF >>

\* The deepest nest of calls in the catalogue.
MaxNest == 4

CoreRoms ==
    {RomNest(d) : d \in 1..MaxNest}
        \cup {RomCall(nnn) : nnn \in CallTargets}
        \cup {RomRecurse, RomUnderflow, RomAddFlag, RomDrawTwice, RomSkips}
        \cup RomInvalid \cup RomEdge

KeyRoms == {RomKeyWait(x) : x \in {0, 7, 15}} \cup {RomKeyInvalid}

\* EX9E or EXA1 (low byte kk) on V0 = 0; the end.
RomKeyTest(kk) == << \hE000 + kk, \hFFFF >>

\* VX = k; EX9E or EXA1 (low byte kk); the end.
RomKeySkip(x, k, kk) ==
    << \h6000 + (256 * x) + k, \hE000 + (256 * x) + kk, \hFFFF >>

\* The key tests on key 0, on the last key and on a value that is no key.
KeySkipRoms ==
    {RomKeyTest(kk) : kk \in {\h9E, \hA1}}
        \cup {RomKeySkip(11, 15, \h9E), RomKeySkip(11, 16, \hA1)}

(***************************************************************************)
(* Specifications.  Spec is the machine stepped, ticked and rendered by    *)
(* the driver loop while no key is held; SpecKeys is the machine stepped   *)
(* and ticked under every keyboard snapshot.                               *)
(***************************************************************************)
Init == InitWith(CoreRoms)

Next == Step \/ Tick \/ Render

Spec == Init /\ [][Next]_vars

InitKeys == InitWith(KeyRoms)

NextKeys == Cycle \/ Tick

SpecKeys == InitKeys /\ [][NextKeys]_vars

\* The machine stepped and ticked under every keyboard snapshot on the key
\* tests.
InitKeySkip == InitWith(KeySkipRoms)

SpecKeySkip == InitKeySkip /\ [][NextKeys]_vars

\* VX = val; I = addr; FX33; the end.
RomBcd(x, val, addr) ==
    << \h6000 + (256 * x) + val, \hA000 + addr, \hF033 + (256 * x), \hFFFF >>

\* Where the BCD ROMs point I: free RAM, the font table, the last three bytes.
BcdAddrs == {\h300, \h052, \hFFD}

BcdRoms == {RomBcd(x, val, addr) : x \in {0, 9, 15}, val \in Byte, addr \in BcdAddrs}

\* The machine stepped and ticked, running FX33 on every byte value.
InitBcd == InitWith(BcdRoms)

NextCore == Step \/ Tick

SpecBcd == InitBcd /\ [][NextCore]_vars

\* One-word ROMs for the decoder: every high byte, and low bytes in which
\* each nibble value 0..F occurs in both places.
DecodeLows == {(16 * n) + (15 - n) : n \in 0..15}

DecodeRoms == {<< (256 * hi) + lo >> : hi \in Byte, lo \in DecodeLows}

\* The machine stepped and ticked on every one-word ROM of DecodeRoms.
InitDecode == InitWith(DecodeRoms)

SpecDecode == InitDecode /\ [][NextCore]_vars

\* VX = a; VY = b; 8XYn; the end.
RomAlu(x, y, a, b, n) ==
    << \h6000 + (256 * x) + a, \h6000 + (256 * y) + b,
       \h8000 + (256 * x) + (16 * y) + n, \hFFFF >>

\* Operand values around the ends and the middle of the byte range.
AluVals == {0, 1, 2, 127, 128, 129, 254, 255}

\* Register pairs <<X, Y>>: distinct, swapped, the same, high and low.
AluRegs == {<<0, 1>>, <<1, 0>>, <<5, 5>>, <<14, 3>>}

\* The subtractions and the shifts on every pair of AluVals.
AluRoms ==
    {RomAlu(xy[1], xy[2], a, b, n) :
        xy \in AluRegs, a \in AluVals, b \in AluVals, n \in {5, 6, 7, 14}}

InitAlu == InitWith(AluRoms)

SpecAlu == InitAlu /\ [][NextCore]_vars

\* V0 = FF; I = FFF; then I += V0 for ever.
RomIndexGrows == << \h60FF, \hAFFF, \hF01E, \h1204 >>

\* VX = d; FX29; the end.
RomGlyph(x, d) == << \h6000 + (256 * x) + d, \hF029 + (256 * x), \hFFFF >>

\* V0 = 11; VX = val; I = addr; FX55 or FX65 (low byte kk); the end.
RomBlock(x, val, addr, kk) ==
    << \h6011, \h6000 + (256 * x) + val, \hA000 + addr,
       \hF000 + (256 * x) + kk, \hFFFF >>

\* Glyph lookups of every digit, and register blocks of 1, 4 and 16 registers
\* stored to free RAM and loaded from the font table.
IndexRoms ==
    {RomIndexGrows}
        \cup {RomGlyph(x, d) : x \in {0, 10}, d \in 0..15}
        \cup {RomBlock(x, val, \h300, \h55) : x \in {0, 3, 15}, val \in {0, 3, 15, 255}}
        \cup {RomBlock(x, val, FONT_BASE, \h65) : x \in {0, 3, 15}, val \in {0, 3, 15, 255}}

InitIndex == InitWith(IndexRoms)

SpecIndex == InitIndex /\ [][NextCore]_vars

\* VA = vx; VB = vy; VF = 1; I = 200 (the ROM itself is the sprite); the
\* sprite drawn twice with n rows; the screen cleared; a draw of no rows.
RomDraw(vx, vy, n) ==
    << \h6A00 + vx, \h6B00 + vy, \h6F01, \hA200,
       \hDAB0 + n, \hDAB0 + n, \h00E0, \hDAB0, \hFFFF >>

\* a draw of no rows on the untouched machine
RomDrawNothing == << \hD000, \hFFFF >>

\* VF = 5 is the X coordinate of a sprite of four rows, drawn twice
RomDrawAtVF == << \h6F05, \h6B03, \hA200, \hDFB4, \hDFB4, \hFFFF >>

\* Sprite origins inside the screen, across its right and bottom edges and
\* wholly outside it.
DrawXs == {0, 57, 63, 64, 255}

DrawYs == {0, 25, 31, 32, 255}

DrawRoms ==
    {RomDraw(vx, vy, n) : vx \in DrawXs, vy \in DrawYs, n \in {1, 8, 15}}
        \cup {RomDrawNothing, RomDrawAtVF}

InitDraw == InitWith(DrawRoms)

SpecDraw == InitDraw /\ [][Next]_vars

\* 200: V0 = val; 202: sound timer = V0; 204: back to 202.
RomTone(val) == << \h6000 + val, \hF018, \h1202 >>

\* Sound timer values written by the tone ROMs.
ToneVals == 0..15

ToneRoms == {RomTone(val) : val \in ToneVals}

InitTone == InitWith(ToneRoms)

\* The driver loop never stops (main.rs, 'running): the fixed-step clock
\* keeps releasing updates and every pass calls chip8.cycle().  No step of a
\* tone ROM is fatal and each one moves PC, so Step is always enabled and
\* []<><<Step>>_vars is what WF_vars(Step) asks for.
SpecTone ==
    InitTone /\ [][NextCore]_vars /\ WF_vars(Tick) /\ []<><<Step>>_vars

(***************************************************************************)
(* Properties.  X, Y and N name the fields of the word at PC before the    *)
(* step; Completes says a step of cycle returned.                          *)
(***************************************************************************)
X == Nib(Word, 1)
Y == Nib(Word, 2)
N == Nib(Word, 3)
KK == Word % 256
NNN == Word % 4096

Completes == Step /\ panic' = "none"

Min(S) == CHOOSE a \in S : \A b \in S : a <= b

\* C1: one tick lowers each timer by exactly 1 when it is above 0 and leaves
\* it at 0 when it is 0, so that a timer set to t takes t ticks to reach 0.
TickLowersByOne ==
    [][Tick =>
        /\ tim_delay' = (IF tim_delay > 0 THEN tim_delay - 1 ELSE 0)
        /\ tim_snd' = (IF tim_snd > 0 THEN tim_snd - 1 ELSE 0)]_vars

\* C2: while PC points at FX0A, a step taken with no key held leaves PC, I,
\* the stack and all V registers as they were, however often it is repeated;
\* a step taken while keys are held stores the held key (the lowest of them)
\* in VX and advances PC by 2.
KeyWaitBlocks ==
    (panic = "none" /\ Word >= 0 /\ Nib(Word, 0) = 15 /\ KK = \h0A) =>
        \A down \in KeySnapshots :
            LET m == cycle(Self, down, 0, overflow_checks)
            IN  m.panic = "none" =>
                    IF down = {}
                    THEN m.pc = pc /\ m.i = i /\ m.stack = stack /\ m.v = v
                    ELSE /\ m.v = [v EXCEPT ![X] = Min(down)]
                         /\ m.pc = pc + 2
                         /\ m.i = i
                         /\ m.stack = stack

\* C2 witness: F70A has returned with key 5 in V7 and PC past the instruction.
KeyWaitReleased == opcode = \hF70A /\ pc = ROM_BASE + 2 /\ v[7] = 5 /\ result = "Ok"

\* The sprite bit DXYN reads for the screen cell <<row, col>>.
SpriteBit(row, col) ==
    BitAnd(RamGet(ram, i + (row - v[Y])), Shl(1, 7 - (col - v[X]))) # 0

\* The screen cells under the sprite of the DXYN at PC.
SpriteCells ==
    {c \in (v[Y]..(v[Y] + N - 1)) \X (v[X]..(v[X] + 7)) :
        c[1] < CHIP8_HEIGHT /\ c[2] < CHIP8_WIDTH}

\* C3: DXYN composes by XOR: every pixel under the sprite becomes
\* (old XOR sprite bit), so that drawing a sprite twice restores the screen.
DrawIsXor ==
    [][(Completes /\ Nib(Word, 0) = 13) =>
         \A c \in SpriteCells :
            (c \in vram') = ((c \in vram) # SpriteBit(c[1], c[2]))]_vars

\* C4: 2NNN at PC = p pushes p + 2 and sets PC = NNN; 00EE sets PC to the
\* address pushed last and removes it; no other instruction touches the
\* stack, so returns come back last in first out, each to the address right
\* after its own call.
CallReturnLifo ==
    [][Completes =>
         /\ Nib(Word, 0) = 2 => (stack' = Append(stack, pc + 2) /\ pc' = NNN)
         /\ Word = \h00EE =>
               /\ stack # <<>>
               /\ pc' = stack[Len(stack)]
               /\ stack' = SubSeq(stack, 1, Len(stack) - 1)
         /\ (Nib(Word, 0) # 2 /\ Word # \h00EE) => stack' = stack]_vars

\* C4 witness: a return has come back to the second of three nested calls:
\* two return addresses are left and PC is the address after the third call.
ReturnedFromThirdCall ==
    /\ opcode = \h00EE
    /\ result = "Ok"
    /\ stack = << ROM_BASE + 2, ROM_BASE + 6 >>
    /\ pc = ROM_BASE + 10

\* C5: the call stack never holds more than 16 return addresses.
StackAtMostSixteen == Len(stack) <= STACK_SIZE

\* The words of the opcode table.
InOpcodeTable(w) ==
    LET n0 == Nib(w, 0)
        n3 == Nib(w, 3)
        kk == w % 256
    IN  \/ n0 \in {0, 1, 2, 3, 4, 6, 7, 10, 11, 12, 13}
        \/ n0 \in {5, 9} /\ n3 = 0
        \/ n0 = 8 /\ n3 \in {0, 1, 2, 3, 4, 5, 6, 7, 14}
        \/ n0 = 14 /\ kk \in {\h9E, \hA1}
        \/ n0 = 15 /\ kk \in {\h07, \h0A, \h15, \h18, \h1E, \h29, \h33, \h55, \h65}

\* C6: a step on a word outside the opcode table always ends in the fatal
\* invalid-opcode condition; the word is never run as another instruction.
InvalidWordIsFatal ==
    [][(Step /\ Word >= 0 /\ ~InOpcodeTable(Word)) =>
            panic' = "invalid instruction"]_vars

\* The highest address FX33, FX55, FX65 or DXYN at PC would touch, -1 when the
\* word at PC is none of them or touches none.
HighestAccess ==
    IF Word < 0 THEN -1
    ELSE IF Nib(Word, 0) = 15 /\ KK = \h33 THEN i + 2
    ELSE IF Nib(Word, 0) = 15 /\ KK \in {\h55, \h65} THEN i + X
    ELSE IF Nib(Word, 0) = 13 /\ N > 0 THEN i + N - 1
    ELSE -1

\* C7: when FX33, FX55, FX65 or DXYN would touch an address above 4095 the
\* step is fatal and RAM, the V registers, I, PC and the frame buffer are
\* exactly as before the step.
AddressErrorIsAtomic ==
    [][(Step /\ HighestAccess >= RAM_SIZE) =>
            /\ panic' # "none"
            /\ UNCHANGED <<ram, v, i, pc, vram>>]_vars

\* C8: 00EE on an empty stack makes cycle return the error value
\* StackUnderflow with PC, sp and the stack unchanged.
UnderflowIsReturned ==
    [][(Step /\ Word = \h00EE /\ stack = <<>>) =>
            /\ result' = "Err(StackUnderflow)"
            /\ UNCHANGED <<pc, sp, stack>>]_vars

\* C9: after 8XY4 with a = VX and b = VY, VF is 1 if a + b > 255 and 0
\* otherwise, also when X or Y is F, and for X other than F VX is
\* (a + b) mod 256.
AddSetsCarry ==
    [][(Completes /\ Nib(Word, 0) = 8 /\ N = 4) =>
            /\ v'[15] = (IF v[X] + v[Y] > 255 THEN 1 ELSE 0)
            /\ X # 15 => v'[X] = (v[X] + v[Y]) % 256]_vars

\* C10: FX33 with I <= 4093 stores the hundreds, tens and ones digit of VX
\* at I, I + 1 and I + 2 and changes no other byte of RAM, no V register and
\* not I.
BcdStoresDigits ==
    [][(Completes /\ Nib(Word, 0) = 15 /\ KK = \h33 /\ i <= RAM_SIZE - 3) =>
            /\ RamGet(ram', i) = v[X] \div 100
            /\ RamGet(ram', i + 1) = (v[X] \div 10) % 10
            /\ RamGet(ram', i + 2) = v[X] % 10
            /\ \A a \in ((DOMAIN ram) \cup (DOMAIN ram')) \ {i, i + 1, i + 2} :
                    RamGet(ram', a) = RamGet(ram, a)
            /\ UNCHANGED <<v, i>>]_vars

\* C10 witness: FX33 has stored 2, 3, 4 for VX = 234 in the last three bytes.
BcdOf234AtTop ==
    /\ Nib(opcode, 0) = 15 /\ opcode % 256 = \h33
    /\ result = "Ok"
    /\ v[Nib(opcode, 1)] = 234
    /\ i = RAM_SIZE - 3
    /\ RamGet(ram, i) = 2 /\ RamGet(ram, i + 1) = 3 /\ RamGet(ram, i + 2) = 4

\* C11: the word fetched from memory[PC], memory[PC + 1] is the big-endian
\* value of the two bytes, its four decoded nibbles are each in 0..15 and
\* n0 * 4096 + n1 * 256 + n2 * 16 + n3 gives the word back.
DecodeRoundTrip ==
    (InRam(pc) /\ InRam(pc + 1)) =>
        /\ Word = (256 * RamGet(ram, pc)) + RamGet(ram, pc + 1)
        /\ \A n \in 0..3 : Nibs(Word)[n] \in 0..15
        /\ Word = (Nibs(Word)[0] * 4096) + (Nibs(Word)[1] * 256)
                      + (Nibs(Word)[2] * 16) + Nibs(Word)[3]

\* C11 witness: the word A5C3 was fetched and dispatched on its fields:
\* ANNN ran with NNN = 5C3.
DecodedA5C3 == opcode = \hA5C3 /\ result = "Ok" /\ i = \h5C3 /\ pc = ROM_BASE + 2

\* C12: the shifts take their operand from VY: for X and Y other than F,
\* after 8XY6 VX is (old VY) >> 1 and VF the lowest bit of old VY; after 8XYE
\* VX is ((old VY) << 1) mod 256 and VF the highest bit of old VY.
ShiftTakesVY ==
    [][(Completes /\ Nib(Word, 0) = 8 /\ X # 15 /\ Y # 15) =>
            /\ N = 6 => (v'[X] = v[Y] \div 2 /\ v'[15] = v[Y] % 2)
            /\ N = 14 => (v'[X] = (2 * v[Y]) % 256 /\ v'[15] = v[Y] \div 128)]_vars

\* C17: for X and Y other than F, with a = VX and b = VY: after 8XY5 VF is 1
\* if a >= b and 0 otherwise and VX is (a - b) mod 256; after 8XY7 VF is 1 if
\* b >= a and 0 otherwise and VX is (b - a) mod 256.
SubSetsNoBorrow ==
    [][(Completes /\ Nib(Word, 0) = 8 /\ X # 15 /\ Y # 15) =>
            /\ N = 5 =>
                  /\ v'[15] = (IF v[X] >= v[Y] THEN 1 ELSE 0)
                  /\ v'[X] = (IF v[X] >= v[Y] THEN v[X] - v[Y]
                                              ELSE (256 + v[X]) - v[Y])
            /\ N = 7 =>
                  /\ v'[15] = (IF v[Y] >= v[X] THEN 1 ELSE 0)
                  /\ v'[X] = (IF v[Y] >= v[X] THEN v[Y] - v[X]
                                              ELSE (256 + v[Y]) - v[X])]_vars

\* C17 witness: 8015 with V0 = 1, V1 = 2 has borrowed: V0 = 255 and VF = 0.
SubBorrowed ==
    /\ opcode = \h8015 /\ result = "Ok"
    /\ v[0] = 255 /\ v[1] = 2 /\ v[15] = 0

\* C13: EX9E skips the next instruction (PC + 4) exactly when the key whose
\* index is VX is held, EXA1 exactly when that key is not held, whatever
\* other keys are held or none; otherwise PC + 2.
KeySkipExact ==
    (panic = "none" /\ Word >= 0 /\ Nib(Word, 0) = 14 /\ KK \in {\h9E, \hA1}) =>
        \A down \in KeySnapshots :
            LET m == cycle(Self, down, 0, overflow_checks)
                skips == (KK = \h9E) = (v[X] \in down)
            IN  m.panic = "none" => m.pc = (IF skips THEN pc + 4 ELSE pc + 2)

\* C14: the index register never leaves 0..FFFF (FX1E saturates at FFFF).
IndexWithinSixteenBits == i \in 0..65535

\* C15: FX29 with a digit d in 0..15 in VX sets I to the address of glyph d
\* of the font table loaded at 0x50: I = 0x50 + 5 * d.
GlyphAddress ==
    [][(Completes /\ Nib(Word, 0) = 15 /\ KK = \h29 /\ v[X] \in 0..15) =>
            i' = FONT_BASE + (5 * v[X])]_vars

\* C16: FX55 copies V0..VX to memory[I..I+X] and FX65 copies memory[I..I+X]
\* to V0..VX; both then add X + 1 (the register index, not the value of VX)
\* to I; the registers above VX and memory outside [I, I+X] are unchanged.
BlockTransferBumpsByIndex ==
    [][(Completes /\ Nib(Word, 0) = 15 /\ KK \in {\h55, \h65}) =>
            /\ i' = i + X + 1
            /\ KK = \h55 =>
                  /\ \A n \in 0..X : RamGet(ram', i + n) = v[n]
                  /\ \A a \in ((DOMAIN ram) \cup (DOMAIN ram')) \ (i..(i + X)) :
                        RamGet(ram', a) = RamGet(ram, a)
                  /\ v' = v
            /\ KK = \h65 =>
                  /\ \A n \in 0..X : v'[n] = RamGet(ram, i + n)
                  /\ \A n \in (X + 1)..15 : v'[n] = v[n]
                  /\ ram' = ram]_vars

\* The cells of the 64 x 32 frame buffer, as <<row, col>>.
Screen == (0..(CHIP8_HEIGHT - 1)) \X (0..(CHIP8_WIDTH - 1))

\* C18: DXYN clips and never wraps: the only cells a draw changes are those
\* at column VX + col, row VY + row with col < 8, row < N, VX + col < 64 and
\* VY + row < 32, and no cell outside the frame buffer is touched.
DrawClips ==
    [][(Step /\ Word >= 0 /\ Nib(Word, 0) = 13) =>
            /\ \A c \in (vram' \ vram) \cup (vram \ vram') : c \in SpriteCells
            /\ vram' \subseteq Screen
            /\ panic' # "unwrap"]_vars

\* C18 witness: a sprite of 8 rows drawn at column 63, row 25 has lit the
\* cell in the last row and column, and nothing in column 0 or row 0.
DrawnAcrossCorner ==
    /\ opcode = \hDAB8 /\ result = "Ok"
    /\ v[10] = 63 /\ v[11] = 25
    /\ <<31, 63>> \in vram
    /\ \A c \in vram : c[1] # 0 /\ c[2] # 0

\* C19: DXYN leaves VF = 1 if some on-screen pixel of the sprite was lit
\* before the draw and has its sprite bit set, and VF = 0 otherwise, whatever
\* VF held before; clipped pixels do not count.
DrawSetsCollision ==
    [][(Completes /\ Nib(Word, 0) = 13) =>
            v'[15] = (IF \E c \in SpriteCells : c \in vram /\ SpriteBit(c[1], c[2])
                      THEN 1 ELSE 0)]_vars

\* C19 witness: the first draw of a sprite at column 63, row 31 has run with
\* VF = 1 before it and left VF = 0: its only on-screen bit is clear.
StaleFlagCleared ==
    /\ opcode = \hDAB8 /\ result = "Ok" /\ pc = ROM_BASE + 10
    /\ v[10] = 63 /\ v[11] = 31
    /\ v[15] = 0

\* C20: every DXYN and every 00E0 leaves vram_changed set, no cycle and no
\* tick takes it from true to false; only the driver's render step does.
DirtyFlagSticks ==
    [][/\ (Completes /\ (Nib(Word, 0) = 13 \/ Word = \h00E0)) => vram_changed'
       /\ ((Step \/ Tick) /\ vram_changed) => vram_changed'
       /\ (vram_changed /\ ~vram_changed') => Render]_vars

\* C20 witness: a draw of no rows on the untouched machine has raised the
\* flag with no pixel lit.
DirtyAfterEmptyDraw ==
    /\ opcode = \hD000 /\ result = "Ok" /\ pc = ROM_BASE + 2
    /\ vram = {} /\ vram_changed

\* The condition under which the skip instruction at PC skips, no key held:
\* EX9E finds its key up, EXA1 finds its key not pressed.
SkipCondition ==
    \/ Nib(Word, 0) = 3 /\ v[X] = KK
    \/ Nib(Word, 0) = 4 /\ v[X] # KK
    \/ Nib(Word, 0) = 5 /\ v[X] = v[Y]
    \/ Nib(Word, 0) = 9 /\ v[X] # v[Y]
    \/ Nib(Word, 0) = 14 /\ KK = \hA1

\* C21: a step on a word of the opcode table that returns sets PC as the
\* opcode says for 00EE, 0NNN, 1NNN, 2NNN, BNNN and a waiting FX0A, and to
\* PC + 2 or PC + 4 otherwise; PC + 4 exactly for a skip instruction (3XKK,
\* 4XKK, 5XY0, 9XY0, EX9E, EXA1) whose condition holds, and the skip
\* instructions change no register.
PcPolicy ==
    [][(Completes /\ InOpcodeTable(Word)) =>
            /\ CASE Word = \h00EE -> stack # <<>> /\ pc' = stack[Len(stack)]
                 [] Nib(Word, 0) = 0 /\ Word \notin {\h00E0, \h00EE} -> pc' = NNN
                 [] Nib(Word, 0) \in {1, 2} -> pc' = NNN
                 [] Nib(Word, 0) = 11 -> pc' = NNN + v[0]
                 [] Nib(Word, 0) = 15 /\ KK = \h0A -> pc' = pc
                 [] OTHER -> pc' = (IF SkipCondition THEN pc + 4 ELSE pc + 2)
            /\ Nib(Word, 0) \in {3, 4, 5, 9, 14} => v' = v]_vars

\* C22: the tone follows the sound timer: after every tick the tone is on
\* exactly when the sound timer is above 0, and a sound timer that FX18 has
\* set above 1 while the tone was off brings the tone on again.
ToneFollowsTimer ==
    /\ [][Tick => (sound' = (tim_snd' > 0))]_vars
    /\ ((tim_snd > 1 /\ ~sound) ~> sound)

\* C23: in every state the machine reaches without a fatal condition sp is
\* the number of return addresses on the call stack; 2NNN raises both by 1,
\* 00EE lowers both by 1 and no other instruction changes either.
SpCountsStack ==
    /\ [](panic = "none" => sp = Len(stack))
    /\ [][Completes =>
            CASE Nib(Word, 0) = 2 -> sp' = sp + 1 /\ Len(stack') = Len(stack) + 1
              [] Word = \h00EE -> sp' = sp - 1 /\ Len(stack') = Len(stack) - 1
              [] OTHER -> sp' = sp /\ stack' = stack]_vars

\* C23 witness: after four nested calls and one return sp and the stack
\* both stand at 3.
SpThreeAfterReturn ==
    /\ opcode = \h00EE /\ result = "Ok" /\ panic = "none"
    /\ sp = 3 /\ Len(stack) = 3
    /\ pc = ROM_BASE + 14

=============================================================================
